---- MODULE Spec2Model ----
(***************************************************************************)
(* A model of streamlit_dashboard.py: the market snapshot builder          *)
(* (fetch_market_data), the risk scoring engine (compute_risk_signal) and  *)
(* the pair signal engine (calculate_pair_trading_signals).                *)
(*                                                                         *)
(* Numbers.  Prices and levels are integers in hundredths (2500 is 25.00). *)
(* A change rate is a float record: a finite value in hundredths of a      *)
(* percent (-400 is -4.00%), or one of the IEEE values +inf, -inf, nan     *)
(* that the float64 division of line 137 yields for a zero previous close. *)
(* The histories of the scenarios below are chosen so that every quotient  *)
(* is exact in hundredths.                                                 *)
(***************************************************************************)
EXTENDS Integers, Sequences, FiniteSets, TLC

VARIABLES
    market,       \* what the quote source holds: instrument id -> closes, oldest first
    faults,       \* how many more fetches the quote source will fail
    now,          \* the clock, in seconds
    cache,        \* the st.cache_data entry of fetch_market_data
    refresh_started_at,  \* st.session_state['refresh_started_at'], -1 while unset
    trigger,      \* what started the current page run: "first", "rerun" or "click"
    pc,           \* position of the page run / of the engine harness
    idx,          \* fetch_market_data: position of the loop over TICKER_MAP
    data,         \* fetch_market_data: the list built so far
    replies,      \* what the quote source answered in this run, in query order
    market_data,  \* the quote list handed to the two engines
    risk,         \* result of compute_risk_signal
    signals,      \* result of calculate_pair_trading_signals
    outputs,      \* which of the two engines have run on market_data
    calls         \* how many times compute_risk_signal was called on market_data

vars == <<market, faults, now, cache, refresh_started_at, trigger, pc, idx, data,
          replies, market_data, risk, signals, outputs, calls>>

\* the session and the cache, which outlive a page run
session == <<now, cache, refresh_started_at, trigger>>

----------------------------------------------------------------------------
(* float64 values of a change rate *)

Fin(v) == [k |-> "fin", v |-> v]
PosInf == [k |-> "inf", v |-> 1]
NegInf == [k |-> "inf", v |-> -1]
NaN    == [k |-> "nan", v |-> 0]

IsFin(a) == a.k = "fin"

\* a < b on floats: false whenever either side is nan
FLt(a, b) ==
    /\ a.k # "nan"
    /\ b.k # "nan"
    /\ IF a.k = "fin" /\ b.k = "fin" THEN a.v < b.v
       ELSE IF a.k = "inf" /\ b.k = "fin" THEN a.v < 0
       ELSE IF a.k = "fin" /\ b.k = "inf" THEN b.v > 0
       ELSE a.v < b.v

FGt(a, b) == FLt(b, a)

FNeg(a) == IF a.k = "nan" THEN NaN ELSE [k |-> a.k, v |-> 0 - a.v]

FAbs(a) == IF a.k = "nan" THEN NaN
           ELSE IF a.k = "inf" THEN PosInf
           ELSE Fin(IF a.v < 0 THEN 0 - a.v ELSE a.v)

FSub(a, b) ==
    IF a.k = "nan" \/ b.k = "nan" THEN NaN
    ELSE IF a.k = "fin" /\ b.k = "fin" THEN Fin(a.v - b.v)
    ELSE IF a.k = "inf" /\ b.k = "fin" THEN a
    ELSE IF a.k = "fin" /\ b.k = "inf" THEN FNeg(b)
    ELSE IF a.v = b.v THEN NaN ELSE a

AbsInt(n) == IF n < 0 THEN 0 - n ELSE n

\* ((current_price - previous_price) / previous_price) * 100 on float64
PctChange(cur, prev) ==
    IF prev = 0
    THEN IF cur > 0 THEN PosInf ELSE IF cur < 0 THEN NegInf ELSE NaN
    ELSE Fin(((cur - prev) * 10000) \div prev)

----------------------------------------------------------------------------
(* The instrument catalog *)

Keys == <<"gold", "silver", "dxy", "us10y", "btc", "krwjpy", "krwusd",
          "usdjpy", "vix", "spx", "ndx">>

KeySet == {Keys[n] : n \in 1..Len(Keys)}

TICKER_MAP ==
    [key \in KeySet |->
        CASE key = "gold"   -> [symbol |-> "GC=F",     ticker |-> "XAU/USD"]
          [] key = "silver" -> [symbol |-> "SI=F",     ticker |-> "XAG/USD"]
          [] key = "dxy"    -> [symbol |-> "DX-Y.NYB", ticker |-> "DXY"]
          [] key = "us10y"  -> [symbol |-> "^TNX",     ticker |-> "US10Y"]
          [] key = "btc"    -> [symbol |-> "BTC-USD",  ticker |-> "BTC/USD"]
          [] key = "krwjpy" -> [symbol |-> "KRWJPY=X", ticker |-> "KRW/JPY"]
          [] key = "krwusd" -> [symbol |-> "KRW=X",    ticker |-> "USD/KRW"]
          [] key = "usdjpy" -> [symbol |-> "JPY=X",    ticker |-> "USD/JPY"]
          [] key = "vix"    -> [symbol |-> "^VIX",     ticker |-> "VIX"]
          [] key = "spx"    -> [symbol |-> "^GSPC",    ticker |-> "S&P 500"]
          [] key = "ndx"    -> [symbol |-> "^NDX",     ticker |-> "NASDAQ 100"]]

get_unit(symbol) ==
    IF symbol \in {"^TNX"} THEN "percentage"
    ELSE IF symbol \in {"DX-Y.NYB", "^SKEW", "^VIX", "^GSPC"} THEN "points"
    ELSE "currency"

\* The formatted text, as its parts: f"{value:.2f}%", f"{value:.2f}",
\* f"${value:,.2f}".  cents is the value rounded to two decimals.
format_value(value, unit) ==
    IF unit = "percentage"
    THEN [prefix |-> "", cents |-> value, grouped |-> FALSE, suffix |-> "%"]
    ELSE IF unit = "points"
    THEN [prefix |-> "", cents |-> value, grouped |-> FALSE, suffix |-> ""]
    ELSE [prefix |-> "$", cents |-> value, grouped |-> TRUE, suffix |-> ""]

\* the literal text "N/A" of the error record
NotAvailable == [text |-> "N/A"]

\* info['symbol'].startswith('^')
StartsWithCaret(symbol) == symbol \in {"^TNX", "^VIX", "^GSPC", "^NDX", "^SKEW"}

\* "안정" if abs(change_pct) < 1 else ("상승" if change_pct > 0 else "하락")
StatusOf(change_pct) ==
    IF FLt(FAbs(change_pct), Fin(100)) THEN "stable"
    ELSE IF FGt(change_pct, Fin(0)) THEN "rising"
    ELSE "falling"

Last(s) == s[Len(s)]

\* QuoteOf that reports an empty history the way the except block reports a failure
QuoteOfEmptyIsError(key, hist) ==
    LET info == TICKER_MAP[key]
        two == Len(hist) >= 2
        current_price == IF two THEN hist[Len(hist)]
                         ELSE IF hist # <<>> THEN Last(hist) ELSE 0
        previous_price == IF two THEN hist[Len(hist) - 1] ELSE current_price
        change_pct == IF two THEN PctChange(current_price, previous_price)
                      ELSE Fin(0)
        unit == get_unit(info.symbol)
    IN  [id |-> key,
         ticker |-> info.ticker,
         current_value |-> current_price,
         previous_value |-> previous_price,
         change_pct |-> change_pct,
         unit |-> unit,
         status |-> IF hist = <<>> THEN "error" ELSE StatusOf(change_pct),
         formatted_value |-> IF hist = <<>> THEN NotAvailable
                             ELSE format_value(current_price, unit),
         positive_is_good |-> IF hist = <<>> THEN TRUE
                              ELSE ~StartsWithCaret(info.symbol)]

\* the body of the try block: the record built from a history that was returned
QuoteOf(key, hist) ==
    LET info == TICKER_MAP[key]
        two == Len(hist) >= 2
        current_price == IF two THEN hist[Len(hist)]
                         ELSE IF hist # <<>> THEN Last(hist) ELSE 0
        previous_price == IF two THEN hist[Len(hist) - 1] ELSE current_price
        change_pct == IF two THEN PctChange(current_price, previous_price)
                      ELSE Fin(0)
        unit == get_unit(info.symbol)
    IN  [id |-> key,
         ticker |-> info.ticker,
         current_value |-> current_price,
         previous_value |-> previous_price,
         change_pct |-> change_pct,
         unit |-> unit,
         status |-> StatusOf(change_pct),
         formatted_value |-> format_value(current_price, unit),
         positive_is_good |-> ~StartsWithCaret(info.symbol)]

\* ErrorRecord with -1.00 as the marker of a missing current value
ErrorRecordNegativeValue(key) ==
    LET info == TICKER_MAP[key]
    IN  [id |-> key,
         ticker |-> info.ticker,
         current_value |-> -100,
         previous_value |-> 0,
         change_pct |-> Fin(0),
         unit |-> get_unit(info.symbol),
         status |-> "error",
         formatted_value |-> [text |-> "N/A"],
         positive_is_good |-> TRUE]

\* the record appended by the except block
ErrorRecord(key) ==
    LET info == TICKER_MAP[key]
    IN  [id |-> key,
         ticker |-> info.ticker,
         current_value |-> 0,
         previous_value |-> 0,
         change_pct |-> Fin(0),
         unit |-> get_unit(info.symbol),
         status |-> "error",
         formatted_value |-> NotAvailable,
         positive_is_good |-> TRUE]

----------------------------------------------------------------------------
(* The quote source: the histories it may hold *)

Calm ==
    [key \in KeySet |->
        CASE key = "gold"   -> <<200000, 200000>>
          [] key = "silver" -> <<2500, 2500>>
          [] key = "dxy"    -> <<10000, 10000>>
          [] key = "us10y"  -> <<400, 400>>
          [] key = "btc"    -> <<500000, 500000>>
          [] key = "krwjpy" -> <<10000, 10000>>
          [] key = "krwusd" -> <<130000, 130000>>
          [] key = "usdjpy" -> <<14800, 14800>>
          [] key = "vix"    -> <<1400, 1400>>
          [] key = "spx"    -> <<500000, 500000>>
          [] key = "ndx"    -> <<2000000, 2000000>>]

\* S&P -4.00%, Nasdaq -1.00%, VIX 36.00, dollar +6.00% to 106.00,
\* gold +1.50% to a gold/silver ratio of 60.9
EquitySelloff ==
    [Calm EXCEPT !["spx"] = <<500000, 480000>>,
                 !["ndx"] = <<2000000, 1980000>>,
                 !["vix"] = <<2500, 3600>>,
                 !["dxy"] = <<10000, 10600>>,
                 !["gold"] = <<150000, 152250>>]

\* values exactly on tier boundaries; gold/silver ratio exactly 65
OnBoundaries ==
    [Calm EXCEPT !["vix"] = <<2500, 2500>>,
                 !["spx"] = <<500000, 485000>>,
                 !["ndx"] = <<2000000, 1990000>>,
                 !["dxy"] = <<10500, 10500>>,
                 !["krwusd"] = <<130000, 131300>>,
                 !["usdjpy"] = <<14000, 14000>>,
                 !["us10y"] = <<400, 415>>,
                 !["silver"] = <<2500, 2575>>,
                 !["gold"] = <<167375, 167375>>]

\* dollar +0.60%, won-yen -1.20%, won-dollar +2.50%, dollar-yen -2.50%;
\* gold/silver ratio 70
FxStress ==
    [Calm EXCEPT !["dxy"] = <<10000, 10060>>,
                 !["krwjpy"] = <<10000, 9880>>,
                 !["krwusd"] = <<130000, 133250>>,
                 !["usdjpy"] = <<14800, 14430>>,
                 !["vix"] = <<3500, 3500>>,
                 !["gold"] = <<175000, 175000>>]

\* dollar -0.60%, won-yen -2.50%, won-dollar -2.50%, dollar-yen +2.50% to 156.22;
\* gold/silver ratio exactly 85
DollarWeak ==
    [Calm EXCEPT !["dxy"] = <<10000, 9940>>,
                 !["krwjpy"] = <<10000, 9750>>,
                 !["krwusd"] = <<130000, 126750>>,
                 !["usdjpy"] = <<15240, 15621>>,
                 !["vix"] = <<1600, 1600>>,
                 !["ndx"] = <<2000000, 2040000>>,
                 !["gold"] = <<212500, 212500>>]

\* gold +12.50% to a gold/silver ratio of 90, 10-year +0.25, bitcoin +7.00%
MetalsRally ==
    [Calm EXCEPT !["gold"] = <<200000, 225000>>,
                 !["silver"] = <<2500, 2500>>,
                 !["us10y"] = <<400, 425>>,
                 !["btc"] = <<500000, 535000>>,
                 !["dxy"] = <<11100, 11100>>,
                 !["spx"] = <<500000, 495000>>,
                 !["ndx"] = <<2000000, 1960000>>]

\* zero closes, a single observation and an empty history
Degenerate ==
    [Calm EXCEPT !["silver"] = <<2500, 0>>,
                 !["spx"] = <<0, 500000>>,
                 !["ndx"] = <<0, 0>>,
                 !["gold"] = <<200000>>,
                 !["btc"] = <<>>,
                 !["vix"] = <<0, 3000>>,
                 !["krwusd"] = <<130000, 131950>>,
                 !["us10y"] = <<>>]

\* the equity sell-off with nothing returned for Nasdaq and dollar-yen
NoHistory ==
    [EquitySelloff EXCEPT !["ndx"] = <<>>,
                          !["usdjpy"] = <<>>]

Scenarios == {Calm, EquitySelloff, OnBoundaries, FxStress, DollarWeak,
              MetalsRally, Degenerate, NoHistory}

----------------------------------------------------------------------------
(* get_item and the risk scoring engine *)

\* Python's None
None == [id |-> "None"]

IsNone(item) == item.id = "None"

RECURSIVE get_item(_, _)
get_item(list, key) ==
    IF list = <<>> THEN None
    ELSE IF Head(list).id = key THEN Head(list)
    ELSE get_item(Tail(list), key)

\* score += inc; factors.append(f"<label> (<metric>) +<shown>")
Fire(acc, inc, ladder, label, metric, shown) ==
    [score |-> acc.score + inc,
     factors |-> Append(acc.factors,
                        [ladder |-> ladder, label |-> label,
                         metric |-> metric, shown |-> shown])]

RuleSpx(acc, list) ==
    LET spx == get_item(list, "spx") IN
    IF IsNone(spx) THEN acc
    ELSE LET spx_chg == spx.change_pct IN
         IF FLt(spx_chg, Fin(-300)) THEN Fire(acc, 3, "spx", "crash", spx_chg, 3)
         ELSE IF FLt(spx_chg, Fin(-150)) THEN Fire(acc, 2, "spx", "decline", spx_chg, 2)
         ELSE IF FLt(spx_chg, Fin(-50)) THEN Fire(acc, 1, "spx", "weak", spx_chg, 1)
         ELSE acc

\* RuleNdx without its lowest tier
RuleNdxTwoTiers(acc, list) ==
    LET ndx == get_item(list, "ndx") IN
    IF IsNone(ndx) THEN acc
    ELSE LET ndx_chg == ndx.change_pct IN
         IF FLt(ndx_chg, Fin(-300)) THEN Fire(acc, 3, "ndx", "crash", ndx_chg, 3)
         ELSE IF FLt(ndx_chg, Fin(-150)) THEN Fire(acc, 2, "ndx", "decline", ndx_chg, 2)
         ELSE acc

RuleNdx(acc, list) ==
    LET ndx == get_item(list, "ndx") IN
    IF IsNone(ndx) THEN acc
    ELSE LET ndx_chg == ndx.change_pct IN
         IF FLt(ndx_chg, Fin(-300)) THEN Fire(acc, 3, "ndx", "crash", ndx_chg, 3)
         ELSE IF FLt(ndx_chg, Fin(-150)) THEN Fire(acc, 2, "ndx", "decline", ndx_chg, 2)
         ELSE IF FLt(ndx_chg, Fin(-50)) THEN Fire(acc, 1, "ndx", "weak", ndx_chg, 1)
         ELSE acc

RuleDivergence(acc, list) ==
    LET spx == get_item(list, "spx")
        ndx == get_item(list, "ndx")
    IN
    IF IsNone(spx) \/ IsNone(ndx) THEN acc
    ELSE LET divergence == FAbs(FSub(spx.change_pct, ndx.change_pct)) IN
         IF FGt(divergence, Fin(200))
         THEN Fire(acc, 2, "divergence", "divergence", divergence, 2)
         ELSE IF FGt(divergence, Fin(100))
         THEN Fire(acc, 1, "divergence", "gap", divergence, 1)
         ELSE acc

\* RuleVix with inclusive comparisons
RuleVixInclusive(acc, list) ==
    LET vix == get_item(list, "vix") IN
    IF IsNone(vix) \/ vix.current_value = 0 THEN acc
    ELSE LET vix_level == vix.current_value IN
         IF vix_level >= 3500 THEN Fire(acc, 3, "vix", "very_high", Fin(vix_level), 3)
         ELSE IF vix_level >= 2500 THEN Fire(acc, 2, "vix", "high", Fin(vix_level), 2)
         ELSE IF vix_level >= 1500 THEN Fire(acc, 1, "vix", "elevated", Fin(vix_level), 1)
         ELSE acc

RuleVix(acc, list) ==
    LET vix == get_item(list, "vix") IN
    IF IsNone(vix) \/ vix.current_value = 0 THEN acc
    ELSE LET vix_level == vix.current_value IN
         IF vix_level > 3500 THEN Fire(acc, 3, "vix", "very_high", Fin(vix_level), 3)
         ELSE IF vix_level > 2500 THEN Fire(acc, 2, "vix", "high", Fin(vix_level), 2)
         ELSE IF vix_level > 1500 THEN Fire(acc, 1, "vix", "elevated", Fin(vix_level), 1)
         ELSE acc

RuleDxy(acc, list) ==
    LET dxy == get_item(list, "dxy") IN
    IF IsNone(dxy) THEN acc
    ELSE LET dxy_chg == dxy.change_pct
             dxy_level == dxy.current_value
             a1 == IF FGt(dxy_chg, Fin(100))
                   THEN Fire(acc, 2, "dxy_chg", "surge", dxy_chg, 2)
                   ELSE IF FGt(dxy_chg, Fin(50))
                   THEN Fire(acc, 1, "dxy_chg", "rise", dxy_chg, 1)
                   ELSE acc
         IN  IF dxy_level > 11000
             THEN Fire(a1, 2, "dxy_level", "very_strong", Fin(dxy_level), 2)
             ELSE IF dxy_level > 10500
             THEN Fire(a1, 1, "dxy_level", "strong", Fin(dxy_level), 1)
             ELSE a1

RuleCrossFx(acc, list) ==
    LET dxy == get_item(list, "dxy")
        krwusd == get_item(list, "krwusd")
        usdjpy == get_item(list, "usdjpy")
        krwjpy == get_item(list, "krwjpy")
    IN
    IF IsNone(dxy) \/ IsNone(krwusd) \/ IsNone(usdjpy) \/ IsNone(krwjpy) THEN acc
    ELSE LET dxy_chg == dxy.change_pct
             krwjpy_chg == krwjpy.change_pct
             a1 == IF FGt(dxy_chg, Fin(50)) /\ FLt(krwjpy_chg, Fin(-100))
                   THEN Fire(acc, 2, "cross_strong", "won_plunge", krwjpy_chg, 2)
                   ELSE IF FGt(dxy_chg, Fin(30)) /\ FLt(krwjpy_chg, Fin(-50))
                   THEN Fire(acc, 1, "cross_strong", "won_weak", krwjpy_chg, 1)
                   ELSE acc
         IN  IF FLt(dxy_chg, Fin(-50)) /\ FLt(krwjpy_chg, Fin(-100))
             THEN Fire(a1, 1, "cross_weak", "won_sluggish", krwjpy_chg, 1)
             ELSE a1

RuleKrwusd(acc, list) ==
    LET krwusd == get_item(list, "krwusd") IN
    IF IsNone(krwusd) THEN acc
    ELSE LET krwusd_chg == krwusd.change_pct IN
         IF FGt(krwusd_chg, Fin(200)) THEN Fire(acc, 3, "krwusd", "won_plunge", krwusd_chg, 3)
         ELSE IF FGt(krwusd_chg, Fin(100)) THEN Fire(acc, 2, "krwusd", "won_weak", krwusd_chg, 2)
         ELSE IF FGt(krwusd_chg, Fin(50)) THEN Fire(acc, 1, "krwusd", "won_down", krwusd_chg, 1)
         ELSE IF FLt(krwusd_chg, Fin(-200)) THEN Fire(acc, 2, "krwusd", "won_surge", krwusd_chg, 2)
         ELSE IF FLt(krwusd_chg, Fin(-100)) THEN Fire(acc, 1, "krwusd", "won_strong", krwusd_chg, 1)
         ELSE acc

\* RuleUsdjpy whose carry-unwind tier adds 2 while its factor text says +3
RuleUsdjpyMisadd(acc, list) ==
    LET usdjpy == get_item(list, "usdjpy") IN
    IF IsNone(usdjpy) THEN acc
    ELSE LET usdjpy_chg == usdjpy.change_pct IN
         IF FGt(usdjpy_chg, Fin(200)) THEN Fire(acc, 2, "usdjpy", "yen_plunge", usdjpy_chg, 2)
         ELSE IF FGt(usdjpy_chg, Fin(100)) THEN Fire(acc, 1, "usdjpy", "yen_weak", usdjpy_chg, 1)
         ELSE IF FLt(usdjpy_chg, Fin(-200)) THEN Fire(acc, 2, "usdjpy", "carry_unwind", usdjpy_chg, 3)
         ELSE IF FLt(usdjpy_chg, Fin(-100)) THEN Fire(acc, 2, "usdjpy", "yen_strong", usdjpy_chg, 2)
         ELSE acc

RuleUsdjpy(acc, list) ==
    LET usdjpy == get_item(list, "usdjpy") IN
    IF IsNone(usdjpy) THEN acc
    ELSE LET usdjpy_chg == usdjpy.change_pct IN
         IF FGt(usdjpy_chg, Fin(200)) THEN Fire(acc, 2, "usdjpy", "yen_plunge", usdjpy_chg, 2)
         ELSE IF FGt(usdjpy_chg, Fin(100)) THEN Fire(acc, 1, "usdjpy", "yen_weak", usdjpy_chg, 1)
         ELSE IF FLt(usdjpy_chg, Fin(-200)) THEN Fire(acc, 3, "usdjpy", "carry_unwind", usdjpy_chg, 3)
         ELSE IF FLt(usdjpy_chg, Fin(-100)) THEN Fire(acc, 2, "usdjpy", "yen_strong", usdjpy_chg, 2)
         ELSE acc

RuleKrwjpy(acc, list) ==
    LET krwjpy == get_item(list, "krwjpy") IN
    IF IsNone(krwjpy) THEN acc
    ELSE LET krwjpy_chg == krwjpy.change_pct IN
         IF FLt(krwjpy_chg, Fin(-200)) THEN Fire(acc, 2, "krwjpy", "structural", krwjpy_chg, 2)
         ELSE IF FLt(krwjpy_chg, Fin(-100)) THEN Fire(acc, 1, "krwjpy", "yen_strong", krwjpy_chg, 1)
         ELSE acc

\* current_value and previous_value are never None in a record of fetch_market_data
RuleUs10y(acc, list) ==
    LET us10y == get_item(list, "us10y") IN
    IF IsNone(us10y) THEN acc
    ELSE LET move_bp == AbsInt(us10y.current_value - us10y.previous_value) IN
         IF move_bp > 20 THEN Fire(acc, 2, "us10y", "jump", Fin(move_bp), 2)
         ELSE IF move_bp > 10 THEN Fire(acc, 1, "us10y", "move", Fin(move_bp), 1)
         ELSE acc

RuleGold(acc, list) ==
    LET gold == get_item(list, "gold") IN
    IF IsNone(gold) THEN acc
    ELSE LET gchg == gold.change_pct IN
         IF FGt(gchg, Fin(200)) THEN Fire(acc, 2, "gold", "strong", gchg, 2)
         ELSE IF FGt(gchg, Fin(100)) THEN Fire(acc, 1, "gold", "rise", gchg, 1)
         ELSE acc

RuleSilver(acc, list) ==
    LET silver == get_item(list, "silver") IN
    IF IsNone(silver) THEN acc
    ELSE LET schg == silver.change_pct IN
         IF FGt(schg, Fin(300)) THEN Fire(acc, 2, "silver", "strong", schg, 2)
         ELSE IF FGt(schg, Fin(150)) THEN Fire(acc, 1, "silver", "rise", schg, 1)
         ELSE acc

RuleBtc(acc, list) ==
    LET btc == get_item(list, "btc") IN
    IF IsNone(btc) THEN acc
    ELSE LET bchg == btc.change_pct IN
         IF FGt(bchg, Fin(600)) THEN Fire(acc, 2, "btc", "surge", bchg, 2)
         ELSE IF FGt(bchg, Fin(300)) THEN Fire(acc, 1, "btc", "rise", bchg, 1)
         ELSE acc

LevelOf(score) ==
    IF score >= 6 THEN "high"
    ELSE IF score >= 3 THEN "medium"
    ELSE "low"

compute_risk_signal(list) ==
    LET a0 == [score |-> 0, factors |-> <<>>]
        a1 == RuleSpx(a0, list)
        a2 == RuleNdx(a1, list)
        a3 == RuleDivergence(a2, list)
        a4 == RuleVix(a3, list)
        a5 == RuleDxy(a4, list)
        a6 == RuleCrossFx(a5, list)
        a7 == RuleKrwusd(a6, list)
        a8 == RuleUsdjpy(a7, list)
        a9 == RuleKrwjpy(a8, list)
        a10 == RuleUs10y(a9, list)
        a11 == RuleGold(a10, list)
        a12 == RuleSilver(a11, list)
        a13 == RuleBtc(a12, list)
    IN  [score |-> a13.score, level |-> LevelOf(a13.score), factors |-> a13.factors]

----------------------------------------------------------------------------
(* The pair signal engine *)

\* signals = {}
NoSignals == [p \in {} |-> None]

\* signals[key] = entry
Put(sigs, key, entry) == (key :> entry) @@ sigs

\* gold_value / silver_value, kept exact as a fraction with a positive denominator
Ratio(num, den) == [num |-> num, den |-> den]

\* ratio > k and ratio < k for a whole number k
RatioGt(r, k) == r.num > k * r.den
RatioLt(r, k) == r.num < k * r.den

\* PairGoldSilver whose two comparisons include the thresholds
PairGoldSilverInclusive(sigs, list) ==
    LET gold == get_item(list, "gold")
        silver == get_item(list, "silver")
    IN
    IF IsNone(gold) \/ IsNone(silver) THEN sigs
    ELSE LET gold_value == gold.current_value
             silver_value == silver.current_value
             gold_silver_ratio == IF silver_value > 0
                                  THEN Ratio(gold_value, silver_value)
                                  ELSE Ratio(0, 1)
         IN  Put(sigs, "gold_silver",
                 [signal |-> IF ~RatioLt(gold_silver_ratio, 85) THEN "buy_silver_sell_gold"
                             ELSE IF ~RatioGt(gold_silver_ratio, 65) THEN "buy_gold_sell_silver"
                             ELSE "neutral",
                  description |-> IF ~RatioLt(gold_silver_ratio, 85) THEN "high"
                                  ELSE IF ~RatioGt(gold_silver_ratio, 65) THEN "low"
                                  ELSE "normal",
                  ratio |-> gold_silver_ratio])

PairGoldSilver(sigs, list) ==
    LET gold == get_item(list, "gold")
        silver == get_item(list, "silver")
    IN
    IF IsNone(gold) \/ IsNone(silver) THEN sigs
    ELSE LET gold_value == gold.current_value
             silver_value == silver.current_value
             gold_silver_ratio == IF silver_value > 0
                                  THEN Ratio(gold_value, silver_value)
                                  ELSE Ratio(0, 1)
         IN  Put(sigs, "gold_silver",
                 [signal |-> IF RatioGt(gold_silver_ratio, 85) THEN "buy_silver_sell_gold"
                             ELSE IF RatioLt(gold_silver_ratio, 65) THEN "buy_gold_sell_silver"
                             ELSE "neutral",
                  description |-> IF RatioGt(gold_silver_ratio, 85) THEN "high"
                                  ELSE IF RatioLt(gold_silver_ratio, 65) THEN "low"
                                  ELSE "normal",
                  ratio |-> gold_silver_ratio])

PairVix(sigs, list) ==
    LET vix == get_item(list, "vix") IN
    IF IsNone(vix) THEN sigs
    ELSE LET vix_level == vix.current_value IN
         Put(sigs, "vix_bonds_stocks",
             [signal |-> IF vix_level > 2500 THEN "sell_bonds_buy_spx"
                         ELSE IF vix_level < 1500 THEN "buy_bonds_sell_spx"
                         ELSE "neutral",
              description |-> IF vix_level > 2500 THEN "high_fear"
                              ELSE IF vix_level < 1500 THEN "low_fear"
                              ELSE "normal",
              vix_level |-> vix_level])

PairUsdJpy(sigs, list) ==
    LET usdjpy == get_item(list, "usdjpy") IN
    IF IsNone(usdjpy) THEN sigs
    ELSE LET usdjpy_value == usdjpy.current_value
             usdjpy_chg == usdjpy.change_pct
             weak == \/ usdjpy_value > 15500
                     \/ (usdjpy_value > 15000 /\ FGt(usdjpy_chg, Fin(150)))
             strong == \/ usdjpy_value < 14000
                       \/ (usdjpy_value < 14500 /\ FLt(usdjpy_chg, Fin(-150)))
         IN  Put(sigs, "usd_jpy",
                 [signal |-> IF weak THEN "buy_yen_sell_dollar"
                             ELSE IF strong THEN "buy_dollar_sell_yen"
                             ELSE "neutral",
                  description |-> IF weak THEN "yen_too_weak"
                                  ELSE IF strong THEN "yen_too_strong"
                                  ELSE "normal",
                  usdjpy_value |-> usdjpy_value])

PairSpxNdx(sigs, list) ==
    LET spx == get_item(list, "spx")
        ndx == get_item(list, "ndx")
    IN
    IF IsNone(spx) \/ IsNone(ndx) THEN sigs
    ELSE LET performance_gap == FSub(ndx.change_pct, spx.change_pct) IN
         Put(sigs, "spx_ndx",
             [signal |-> IF FGt(performance_gap, Fin(150)) THEN "sell_ndx_buy_spx"
                         ELSE IF FLt(performance_gap, Fin(-150)) THEN "sell_spx_buy_ndx"
                         ELSE "neutral",
              description |-> IF FGt(performance_gap, Fin(150)) THEN "tech_overheated"
                              ELSE IF FLt(performance_gap, Fin(-150)) THEN "tech_weak"
                              ELSE "balanced",
              performance_gap |-> performance_gap])

calculate_pair_trading_signals(list) ==
    PairSpxNdx(PairUsdJpy(PairVix(PairGoldSilver(NoSignals, list), list), list), list)

----------------------------------------------------------------------------
(* One page run: fetch_market_data, then the two engines *)

\* the value of risk before compute_risk_signal has returned
NoRisk == [score |-> 0, level |-> "unset", factors |-> <<>>]

\* @st.cache_data(ttl=60)
TTL == 60

\* the cache without an entry for fetch_market_data
NoCache == [full |-> FALSE, at |-> 0, value |-> <<>>]

\* the entry is served while it is younger than the ttl
CacheValid == cache.full /\ now - cache.at < TTL

\* the first page run of a session, in the body of fetch_market_data (nothing is cached)
Init ==
    /\ market \in Scenarios
    /\ faults = Len(Keys)
    /\ now = 0
    /\ cache = NoCache
    /\ refresh_started_at = -1
    /\ trigger = "first"
    /\ pc = "fetch"
    /\ idx = 1
    /\ data = <<>>
    /\ replies = <<>>
    /\ market_data = <<>>
    /\ risk = NoRisk
    /\ signals = NoSignals
    /\ outputs = {}
    /\ calls = 0

\* one iteration of the loop over TICKER_MAP in which the try block completes
FetchOk ==
    /\ pc = "fetch"
    /\ idx <= Len(Keys)
    /\ data' = Append(data, QuoteOf(Keys[idx], market[Keys[idx]]))
    /\ replies' = Append(replies, [key |-> Keys[idx], raised |-> FALSE,
                                   hist |-> market[Keys[idx]]])
    /\ idx' = idx + 1
    /\ UNCHANGED <<market, faults, session, pc, market_data, risk, signals,
                   outputs, calls>>

\* FetchRaise whose except block appends nothing
FetchRaiseSkip ==
    /\ pc = "fetch"
    /\ idx <= Len(Keys)
    /\ faults > 0
    /\ faults' = faults - 1
    /\ replies' = Append(replies, [key |-> Keys[idx], raised |-> TRUE,
                                   hist |-> <<>>])
    /\ idx' = idx + 1
    /\ UNCHANGED <<market, session, pc, data, market_data, risk, signals,
                   outputs, calls>>

\* FetchRaise that asks the quote source again after a failure
FetchRaiseRetry ==
    /\ pc = "fetch"
    /\ idx <= Len(Keys)
    /\ faults > 0
    /\ faults' = faults - 1
    /\ replies' = Append(replies, [key |-> Keys[idx], raised |-> TRUE,
                                   hist |-> <<>>])
    /\ UNCHANGED <<market, session, pc, idx, data, market_data, risk, signals,
                   outputs, calls>>

\* one iteration in which yf.Ticker(...).history(...) raises
FetchRaise ==
    /\ pc = "fetch"
    /\ idx <= Len(Keys)
    /\ faults > 0
    /\ faults' = faults - 1
    /\ data' = Append(data, ErrorRecord(Keys[idx]))
    /\ replies' = Append(replies, [key |-> Keys[idx], raised |-> TRUE,
                                   hist |-> <<>>])
    /\ idx' = idx + 1
    /\ UNCHANGED <<market, session, pc, market_data, risk, signals, outputs,
                   calls>>

\* return data: the decorator stores the list; market_data = fetch_market_data()
FetchReturn ==
    /\ pc = "fetch"
    /\ idx > Len(Keys)
    /\ market_data' = data
    /\ cache' = [full |-> TRUE, at |-> now, value |-> data]
    /\ pc' = "risk"
    /\ UNCHANGED <<market, faults, now, refresh_started_at, trigger, idx, data,
                   replies, risk, signals, outputs, calls>>

\* risk = compute_risk_signal(market_data)
RunRisk ==
    /\ pc = "risk"
    /\ risk' = compute_risk_signal(market_data)
    /\ outputs' = outputs \cup {"risk"}
    /\ calls' = calls + 1
    /\ pc' = "pairs"
    /\ UNCHANGED <<market, faults, session, idx, data, replies, market_data,
                   signals>>

\* pair_signals = calculate_pair_trading_signals(market_data)
RunPairs ==
    /\ pc = "pairs"
    /\ signals' = calculate_pair_trading_signals(market_data)
    /\ outputs' = outputs \cup {"pairs"}
    /\ pc' = "done"
    /\ UNCHANGED <<market, faults, session, idx, data, replies, market_data,
                   risk, calls>>

Next == FetchOk \/ FetchRaise \/ FetchReturn \/ RunRisk \/ RunPairs

Spec == Init /\ [][Next]_vars

----------------------------------------------------------------------------
(* Page runs of one session over time: the cache and the refresh button *)

\* the clock stops here
MaxClock == 80

\* the time that passes between two looks at the page
TickSeconds == 20

\* the quote source fails at most this many fetches
MaxFaults == 1

\* a script run starts with fresh locals
FreshRun ==
    /\ pc' = "call"
    /\ idx' = 1
    /\ data' = <<>>
    /\ replies' = <<>>
    /\ market_data' = <<>>
    /\ risk' = NoRisk
    /\ signals' = NoSignals
    /\ outputs' = {}
    /\ calls' = 0

InitCache ==
    /\ market \in {Calm, FxStress}
    /\ faults = MaxFaults
    /\ now = 0
    /\ cache = NoCache
    /\ refresh_started_at = -1
    /\ trigger = "first"
    /\ pc = "fetch"
    /\ idx = 1
    /\ data = <<>>
    /\ replies = <<>>
    /\ market_data = <<>>
    /\ risk = NoRisk
    /\ signals = NoSignals
    /\ outputs = {}
    /\ calls = 0

\* time passes while the page is shown
Tick ==
    /\ pc = "done"
    /\ now < MaxClock
    /\ now' = now + TickSeconds
    /\ UNCHANGED <<market, faults, cache, refresh_started_at, trigger, pc, idx,
                   data, replies, market_data, risk, signals, outputs, calls>>

\* any interaction other than the refresh button reruns the script
Rerun ==
    /\ pc = "done"
    /\ trigger' = "rerun"
    /\ FreshRun
    /\ UNCHANGED <<market, faults, now, cache, refresh_started_at>>

\* ClickRefresh without st.cache_data.clear()
ClickRefreshKeepsCache ==
    /\ pc = "done"
    /\ refresh_started_at' = now
    /\ trigger' = "click"
    /\ FreshRun
    /\ UNCHANGED <<market, faults, now, cache>>

\* the refresh button: record the time, st.cache_data.clear(), st.rerun()
ClickRefresh ==
    /\ pc = "done"
    /\ refresh_started_at' = now
    /\ cache' = NoCache
    /\ trigger' = "click"
    /\ FreshRun
    /\ UNCHANGED <<market, faults, now>>

\* fetch_market_data() served from the cache: the body does not run
FetchCached ==
    /\ pc = "call"
    /\ CacheValid
    /\ market_data' = cache.value
    /\ pc' = "risk"
    /\ UNCHANGED <<market, faults, session, idx, data, replies, risk, signals,
                   outputs, calls>>

\* fetch_market_data() with no entry, or an expired one: the body runs
FetchMiss ==
    /\ pc = "call"
    /\ ~CacheValid
    /\ pc' = "fetch"
    /\ UNCHANGED <<market, faults, session, idx, data, replies, market_data,
                   risk, signals, outputs, calls>>

NextCache ==
    \/ FetchOk \/ FetchRaise \/ FetchReturn \/ RunRisk \/ RunPairs
    \/ Tick \/ Rerun \/ ClickRefresh \/ FetchCached \/ FetchMiss

SpecCache == InitCache /\ [][NextCache]_vars

----------------------------------------------------------------------------
(* The two engines as pure functions of an arbitrary quote list *)

\* at most this many instruments of a full snapshot are absent or error records
MaxDamaged == 2

\* or at most this many instruments are in the list at all
MaxPresent == 2

\* compute_risk_signal is called at most this many times on one list
MaxCalls == 2

SmallSets(n) == {S \in SUBSET KeySet : Cardinality(S) <= n}

\* per instrument: "real" (the record of its history), "error" or "absent"
DamagedModes ==
    UNION {{[key \in KeySet |-> IF key \in D THEN g[key] ELSE "real"] :
                g \in [D -> {"error", "absent"}]} : D \in SmallSets(MaxDamaged)}

SparseModes ==
    UNION {{[key \in KeySet |-> IF key \in P THEN g[key] ELSE "absent"] :
                g \in [P -> {"real", "error"}]} : P \in SmallSets(MaxPresent)}

RECURSIVE BuildList(_, _, _)
BuildList(m, mode, n) ==
    IF n > Len(Keys) THEN <<>>
    ELSE LET key == Keys[n]
             item == IF mode[key] = "real" THEN <<QuoteOf(key, m[key])>>
                     ELSE IF mode[key] = "error" THEN <<ErrorRecord(key)>>
                     ELSE <<>>
         IN  item \o BuildList(m, mode, n + 1)

InitEngine ==
    /\ market \in Scenarios
    /\ faults = 0
    /\ now = 0
    /\ cache = NoCache
    /\ refresh_started_at = -1
    /\ trigger = "first"
    /\ pc = "engine"
    /\ idx = 1
    /\ data = <<>>
    /\ replies = <<>>
    /\ market_data \in {BuildList(market, mode, 1) : mode \in DamagedModes \cup SparseModes}
    /\ risk = NoRisk
    /\ signals = NoSignals
    /\ outputs = {}
    /\ calls = 0

\* CallRisk with an engine that removes the error records from the list it is given
CallRiskDropsErrors ==
    /\ pc = "engine"
    /\ calls < MaxCalls
    /\ market_data' = SelectSeq(market_data, LAMBDA q : q.status # "error")
    /\ risk' = compute_risk_signal(market_data')
    /\ outputs' = outputs \cup {"risk"}
    /\ calls' = calls + 1
    /\ UNCHANGED <<market, faults, session, pc, idx, data, replies, signals>>

CallRisk ==
    /\ pc = "engine"
    /\ calls < MaxCalls
    /\ risk' = compute_risk_signal(market_data)
    /\ outputs' = outputs \cup {"risk"}
    /\ calls' = calls + 1
    /\ UNCHANGED <<market, faults, session, pc, idx, data, replies, market_data,
                   signals>>

CallPairs ==
    /\ pc = "engine"
    /\ "pairs" \notin outputs
    /\ signals' = calculate_pair_trading_signals(market_data)
    /\ outputs' = outputs \cup {"pairs"}
    /\ UNCHANGED <<market, faults, session, pc, idx, data, replies, market_data,
                   risk, calls>>

NextEngine == CallRisk \/ CallPairs

SpecEngine == InitEngine /\ [][NextEngine]_vars

----------------------------------------------------------------------------
(* Properties *)

IsSentinel(q) ==
    /\ q.current_value = 0
    /\ q.previous_value = 0
    /\ q.change_pct = Fin(0)
    /\ q.status = "error"
    /\ q.formatted_value = NotAvailable

\* the quote is not in the list, or is there only as an error record
Unavailable(list, key) ==
    IsNone(get_item(list, key)) \/ get_item(list, key).status = "error"

RECURSIVE SumShown(_)
SumShown(factors) ==
    IF factors = <<>> THEN 0 ELSE Head(factors).shown + SumShown(Tail(factors))

FactorsOf(ladder) ==
    {n \in 1..Len(risk.factors) : risk.factors[n].ladder = ladder}

\* the list without its n-th quote
Without(list, n) == SubSeq(list, 1, n - 1) \o SubSeq(list, n + 1, Len(list))

\* C1: whatever instruments fail, fetch_market_data returns one record per
\* TICKER_MAP entry in catalog order; a failing instrument's record is the
\* sentinel and every other record is the one built from its history alone.
C1_OneRecordPerInstrument ==
    /\ pc = "fetch" => Len(data) = idx - 1
    /\ pc # "fetch" =>
         /\ Len(market_data) = Len(Keys)
         /\ \A n \in 1..Len(Keys) :
              /\ market_data[n].id = Keys[n]
              /\ replies[n].raised => IsSentinel(market_data[n])
              /\ ~replies[n].raised =>
                     market_data[n] = QuoteOf(Keys[n], market[Keys[n]])

\* a cycle has returned in which a fetch failed before one that succeeded
C1_Witness ==
    /\ pc = "done"
    /\ \E a, b \in 1..Len(Keys) :
          a < b /\ replies[a].raised /\ ~replies[b].raised

\* the quotes each ladder of compute_risk_signal looks up before it is evaluated
RuleNeeds(ladder) ==
    CASE ladder = "spx" -> {"spx"}
      [] ladder = "ndx" -> {"ndx"}
      [] ladder = "divergence" -> {"spx", "ndx"}
      [] ladder = "vix" -> {"vix"}
      [] ladder \in {"dxy_chg", "dxy_level"} -> {"dxy"}
      [] ladder \in {"cross_strong", "cross_weak"} -> {"dxy", "krwusd", "usdjpy", "krwjpy"}
      [] OTHER -> {ladder}

\* C2: a rule one of whose required quotes is absent or an error sentinel adds
\* nothing to the score and appends no factor.
C2_NoFactorFromUnavailableQuote ==
    "risk" \in outputs =>
        \A n \in 1..Len(risk.factors) :
            \A key \in RuleNeeds(risk.factors[n].ladder) :
                ~Unavailable(market_data, key)

PairNeeds(pair) ==
    CASE pair = "gold_silver" -> {"gold", "silver"}
      [] pair = "vix_bonds_stocks" -> {"vix"}
      [] pair = "usd_jpy" -> {"usdjpy"}
      [] pair = "spx_ndx" -> {"spx", "ndx"}

PairIds == {"gold_silver", "vix_bonds_stocks", "usd_jpy", "spx_ndx"}

\* C3: a pair one of whose required quotes is missing or present only as an
\* error sentinel has no entry in the returned mapping.
C3_PairAbsentWhenQuoteUnavailable ==
    "pairs" \in outputs =>
        \A pair \in PairIds :
            (\E key \in PairNeeds(pair) : Unavailable(market_data, key))
                => pair \notin DOMAIN signals

\* C4: when every instrument failed to fetch, compute_risk_signal returns
\* score 0, level low and no factors.
C4_AllFailedIsLowRisk ==
    (pc \in {"pairs", "done"} /\ \A n \in 1..Len(Keys) : replies[n].raised)
        => risk = [score |-> 0, level |-> "low", factors |-> <<>>]

C4_Witness ==
    /\ pc = "done"
    /\ \A n \in 1..Len(Keys) : replies[n].raised
    /\ \A n \in 1..Len(Keys) : IsSentinel(market_data[n])

\* the input of golden scenario 3: only spx at -4.00% and ndx at -1.00%
GoldenThree ==
    /\ Len(market_data) = 2
    /\ market_data[1].id = "spx" /\ market_data[1].change_pct = Fin(-400)
    /\ market_data[2].id = "ndx" /\ market_data[2].change_pct = Fin(-100)
    /\ "risk" \in outputs

\* C5 as stated: on golden scenario 3 the S&P top tier (3) and the divergence
\* top tier (2) fire and the total is 5, level medium.
C5_GoldenThreeScoresFive ==
    GoldenThree =>
        /\ \E n \in FactorsOf("spx") : risk.factors[n].shown = 3
        /\ \E n \in FactorsOf("divergence") :
              risk.factors[n].shown = 2 /\ risk.factors[n].metric = Fin(300)
        /\ risk.score = 5
        /\ risk.level = "medium"

\* C5 amended: on golden scenario 3 the S&P top tier (3), the Nasdaq lowest
\* tier (1, as -1.00% is below -0.5%) and the divergence top tier (2,
\* divergence 3.00) fire in this order; the total is 6 and the level is high.
C5_GoldenThreeScoresSix ==
    GoldenThree =>
        /\ Len(risk.factors) = 3
        /\ risk.factors[1].ladder = "spx" /\ risk.factors[1].shown = 3
        /\ risk.factors[2].ladder = "ndx" /\ risk.factors[2].shown = 1
        /\ risk.factors[3].ladder = "divergence" /\ risk.factors[3].shown = 2
        /\ risk.factors[3].metric = Fin(300)
        /\ risk.score = 6
        /\ risk.level = "high"

C5_Witness == GoldenThree /\ risk.score > 0

\* C6: a record built from two observations with a zero previous close has
\* change_pct 0 and previous_value equal to current_value; change_pct is the
\* percentage formula only for two observations and a non-zero previous close,
\* and 0 otherwise.
C6_ZeroPreviousCloseIsGuarded ==
    \A n \in 1..Len(data) :
        ~replies[n].raised =>
            LET hist == replies[n].hist
                guarded == Len(hist) >= 2 /\ hist[Len(hist) - 1] # 0
            IN  /\ guarded => data[n].change_pct
                                = PctChange(hist[Len(hist)], hist[Len(hist) - 1])
                /\ ~guarded => /\ data[n].change_pct = Fin(0)
                               /\ data[n].previous_value = data[n].current_value

\* C7: with gold and silver both in the list and a silver value of 0, the
\* gold_silver pair is not in the returned mapping.
C7_ZeroSilverOmitsPair ==
    ("pairs" \in outputs
        /\ ~IsNone(get_item(market_data, "gold"))
        /\ ~IsNone(get_item(market_data, "silver"))
        /\ get_item(market_data, "silver").current_value = 0)
            => "gold_silver" \notin DOMAIN signals

\* C8: the score is a non-negative integer, the sum of the deltas of the
\* factors; the level is high iff score >= 6, medium iff 3 <= score < 6 and
\* low otherwise.
C8_ScoreIsSumOfFactors ==
    "risk" \in outputs =>
        /\ risk.score \in Nat
        /\ risk.score = SumShown(risk.factors)
        /\ risk.level = "high" <=> risk.score >= 6
        /\ risk.level = "medium" <=> (3 <= risk.score /\ risk.score < 6)
        /\ risk.level = "low" <=> risk.score < 3

C8_Witness ==
    /\ "risk" \in outputs
    /\ risk.level = "high"
    /\ Len(risk.factors) >= 4
    /\ \E n \in 1..Len(risk.factors) : risk.factors[n].shown = 3

\* the delta of the one factor of a ladder, 0 when the ladder did not fire
DeltaOf(ladder) ==
    IF FactorsOf(ladder) = {} THEN 0
    ELSE risk.factors[CHOOSE n \in FactorsOf(ladder) : TRUE].shown

\* C9: every ladder fires at most one tier per evaluation, the highest whose
\* strict comparison holds: a VIX of exactly 25.00 adds only 1 and of exactly
\* 35.00 only 2; the won-dollar and dollar-yen ladders add the delta of the
\* first comparison of their chain that holds.
C9_OneTierPerLadder ==
    "risk" \in outputs =>
        LET vix == get_item(market_data, "vix")
            krwusd == get_item(market_data, "krwusd")
            usdjpy == get_item(market_data, "usdjpy")
        IN  /\ \A a, b \in 1..Len(risk.factors) :
                  risk.factors[a].ladder = risk.factors[b].ladder => a = b
            /\ ~IsNone(vix) =>
                  DeltaOf("vix") = (IF vix.current_value > 3500 THEN 3
                                    ELSE IF vix.current_value > 2500 THEN 2
                                    ELSE IF vix.current_value > 1500 THEN 1
                                    ELSE 0)
            /\ (~IsNone(vix) /\ vix.current_value = 2500) => DeltaOf("vix") = 1
            /\ (~IsNone(vix) /\ vix.current_value = 3500) => DeltaOf("vix") = 2
            /\ (~IsNone(krwusd) /\ IsFin(krwusd.change_pct)) =>
                  DeltaOf("krwusd") = (IF krwusd.change_pct.v > 200 THEN 3
                                       ELSE IF krwusd.change_pct.v > 100 THEN 2
                                       ELSE IF krwusd.change_pct.v > 50 THEN 1
                                       ELSE IF krwusd.change_pct.v < -200 THEN 2
                                       ELSE IF krwusd.change_pct.v < -100 THEN 1
                                       ELSE 0)
            /\ (~IsNone(usdjpy) /\ IsFin(usdjpy.change_pct)) =>
                  DeltaOf("usdjpy") = (IF usdjpy.change_pct.v > 200 THEN 2
                                       ELSE IF usdjpy.change_pct.v > 100 THEN 1
                                       ELSE IF usdjpy.change_pct.v < -200 THEN 3
                                       ELSE IF usdjpy.change_pct.v < -100 THEN 2
                                       ELSE 0)

\* the engine has run on a list whose VIX is exactly 25.00
C9_Witness ==
    /\ "risk" \in outputs
    /\ ~IsNone(get_item(market_data, "vix"))
    /\ get_item(market_data, "vix").current_value = 2500
    /\ DeltaOf("vix") = 1
    /\ FactorsOf("dxy_level") = {}

\* the largest delta the rules reading an instrument's own metrics can add
OwnMaximum(key) ==
    CASE key = "spx" -> 3 + 2
      [] key = "ndx" -> 3 + 2
      [] key = "vix" -> 3
      [] key = "dxy" -> 2 + 2 + 2
      [] key = "krwjpy" -> 2 + 2
      [] key = "krwusd" -> 3
      [] key = "usdjpy" -> 3
      [] OTHER -> 2

\* C10: removing one quote changes the score by at most the sum of the
\* maximum deltas of the rules that use that quote's own metrics.
C10_RemovalBoundedByOwnRules ==
    "risk" \in outputs =>
        \A n \in 1..Len(market_data) :
            AbsInt(risk.score - compute_risk_signal(Without(market_data, n)).score)
                <= OwnMaximum(market_data[n].id)


\* the call of fetch_market_data of the current run has returned
Fetched == pc \in {"risk", "pairs", "done"}

\* the current run got its list from the cache: the quote source was not asked
ServedFromCache == Fetched /\ replies = <<>>

\* the quote source was asked for every instrument of the catalog, in catalog order
QueriedEveryInstrument ==
    /\ Len(replies) = Len(Keys)
    /\ \A n \in 1..Len(replies) : replies[n].key = Keys[n]

(* C11: a call of fetch_market_data is served from the cache without asking
   the quote source only if the cached list was computed at most 60 seconds
   earlier and no manual refresh happened since it was computed; the call
   that follows a manual refresh asks the source for every instrument. *)
C11_CacheOnlyWhenFreshAndNotRefreshed ==
    /\ ServedFromCache =>
          /\ cache.full
          /\ market_data = cache.value
          /\ trigger # "click"
          /\ refresh_started_at <= cache.at
          /\ pc = "risk" => now - cache.at <= TTL
    /\ (Fetched /\ trigger = "click") => QueriedEveryInstrument

\* a run served from the cache some time after a refresh click had refilled it
C11_Witness ==
    /\ ServedFromCache
    /\ pc = "risk"
    /\ refresh_started_at >= 0
    /\ now > cache.at


\* how many times the quote source was asked for an instrument in this run
QueriesFor(key) ==
    Cardinality({n \in 1..Len(replies) : replies[n].key = key})

(* C12: within one uncached execution of fetch_market_data the quote source
   is asked exactly once per catalog instrument: no instrument is asked for
   twice while the loop runs, a failing one is not asked for again, and the
   list the execution returns holds the sentinel record of every instrument
   whose fetch failed. *)
C12_QueriedOncePerInstrument ==
    /\ \A key \in KeySet : QueriesFor(key) <= 1
    /\ pc = "fetch" =>
          \A n \in 1..Len(Keys) : QueriesFor(Keys[n]) = (IF n < idx THEN 1 ELSE 0)
    /\ Fetched =>
          \A key \in KeySet :
              /\ QueriesFor(key) = 1
              /\ \A n \in 1..Len(replies) :
                    (replies[n].key = key /\ replies[n].raised) =>
                        get_item(market_data, key) = ErrorRecord(key)

\* a returned cycle in which the first instrument failed and a later one failed too
C12_Witness ==
    /\ pc = "risk"
    /\ replies[1].raised
    /\ \E n \in 2..Len(replies) : replies[n].raised
    /\ \E n \in 2..Len(replies) : ~replies[n].raised


\* the yield instrument and the index-style or volatility instruments of the catalog
YieldInstruments == {"us10y"}
IndexStyleInstruments == {"dxy", "vix", "spx", "ndx"}

(* C13: for every instrument of TICKER_MAP get_unit returns percentage for
   the yield instrument, points for the index-style and volatility
   instruments (dxy, vix, spx, ndx) and currency for all the others, so the
   formatted value of an index-style instrument is a plain two-decimal number
   with no currency prefix, no thousands grouping and no suffix. *)
C13_UnitFollowsInstrumentKind ==
    \A n \in 1..Len(data) :
        ~replies[n].raised =>
            LET key == data[n].id
                unit == get_unit(TICKER_MAP[key].symbol)
            IN  /\ data[n].unit = unit
                /\ data[n].formatted_value = format_value(data[n].current_value, unit)
                /\ unit = (IF key \in YieldInstruments THEN "percentage"
                           ELSE IF key \in IndexStyleInstruments THEN "points"
                           ELSE "currency")
                /\ key \in IndexStyleInstruments =>
                       /\ data[n].formatted_value.prefix = ""
                       /\ ~data[n].formatted_value.grouped
                       /\ data[n].formatted_value.suffix = ""


(* C14: compute_risk_signal is repeatable and leaves its input alone: no call
   of either engine changes the quote list, a call of compute_risk_signal
   after an earlier one returns the same score, level and factor list in the
   same order, and the result of calculate_pair_trading_signals is the one
   for the list as it stands, whether it was computed before or after the
   calls of compute_risk_signal. *)
C14_RiskRepeatableInputUntouched ==
    [][ /\ market_data' = market_data
        /\ (calls >= 1 /\ calls' > calls) => risk' = risk
        /\ "pairs" \in outputs' =>
               signals' = calculate_pair_trading_signals(market_data')
      ]_vars

\* compute_risk_signal was called twice on a list with an error record and
\* fired several rules, and calculate_pair_trading_signals has run as well
C14_Witness ==
    /\ pc = "engine"
    /\ calls >= 2
    /\ "pairs" \in outputs
    /\ Len(risk.factors) >= 2
    /\ \E n \in 1..Len(market_data) : market_data[n].status = "error"


\* gold and silver are both in the list and the silver value is positive
GoldSilverQuoted ==
    /\ "pairs" \in outputs
    /\ ~IsNone(get_item(market_data, "gold"))
    /\ ~IsNone(get_item(market_data, "silver"))
    /\ get_item(market_data, "silver").current_value > 0

(* C15: with gold and silver both present and a positive silver value, the
   gold_silver entry exists, carries the unrounded ratio gold/silver, and is
   exactly one of three calls: buy-silver/sell-gold with the "high"
   description iff ratio > 85, buy-gold/sell-silver iff ratio < 65, neutral
   iff 65 <= ratio <= 85; a ratio of 90 gives the buy-silver call and a
   ratio of 70 gives neutral. *)
C15_GoldSilverThreeWayCall ==
    GoldSilverQuoted =>
        LET g == get_item(market_data, "gold").current_value
            s == get_item(market_data, "silver").current_value
        IN  /\ "gold_silver" \in DOMAIN signals
            /\ signals["gold_silver"].ratio.num * s = g * signals["gold_silver"].ratio.den
            /\ signals["gold_silver"].signal \in
                   {"buy_silver_sell_gold", "buy_gold_sell_silver", "neutral"}
            /\ (signals["gold_silver"].signal = "buy_silver_sell_gold") = (g > 85 * s)
            /\ (signals["gold_silver"].description = "high") = (g > 85 * s)
            /\ (signals["gold_silver"].signal = "buy_gold_sell_silver") = (g < 65 * s)
            /\ (signals["gold_silver"].description = "low") = (g < 65 * s)
            /\ (signals["gold_silver"].signal = "neutral") = (65 * s <= g /\ g <= 85 * s)
            /\ g = 90 * s => /\ signals["gold_silver"].signal = "buy_silver_sell_gold"
                             /\ signals["gold_silver"].description = "high"
            /\ g = 70 * s => signals["gold_silver"].signal = "neutral"

\* the pair engine has classified a ratio of exactly 85
C15_Witness ==
    /\ GoldSilverQuoted
    /\ get_item(market_data, "gold").current_value
           = 85 * get_item(market_data, "silver").current_value
    /\ signals["gold_silver"].signal = "neutral"


\* the combined cross-FX rule added a factor to this result
CrossFxFired(result) ==
    \E n \in 1..Len(result.factors) :
        result.factors[n].ladder \in {"cross_strong", "cross_weak"}

\* the list with the quote of one instrument replaced by another record of it
Replace(list, key, quote) ==
    [n \in 1..Len(list) |-> IF list[n].id = key THEN quote ELSE list[n]]

\* the genuine quotes an instrument has in the scenarios: its change rates vary
OtherQuotes(key) == {QuoteOf(key, m[key]) : m \in Scenarios}

\* with every other quote as it is, some other change rate of this instrument
\* would have kept the combined cross-FX rule from firing
CrossFxDependsOn(key) ==
    \E quote \in OtherQuotes(key) :
        ~CrossFxFired(compute_risk_signal(Replace(market_data, key, quote)))

(* C16: the combined cross-FX rule fires only when a condition on the dxy
   change rate and conditions on FX change rates co-occur, three metrics in
   all: when it has fired, the firing depends on the change rate of the won-
   dollar or of the dollar-yen quote, not only on that quote being present. *)
C16_CrossFxDependsOnThreeMetrics ==
    ("risk" \in outputs /\ CrossFxFired(risk)) =>
        (CrossFxDependsOn("krwusd") \/ CrossFxDependsOn("usdjpy"))


\* the quote source returned an empty history for the n-th instrument, without raising
EmptyReply(n) == ~replies[n].raised /\ replies[n].hist = <<>>

(* C17: an empty history returned without raising gives a record with
   current_value = previous_value = 0 and change_pct = 0 whose status is
   stable and whose formatted_value is the unit-formatted zero, not "N/A": the
   very record of a single genuine close of 0.00.  status = error appears
   exactly when the fetch raised.  Both engines find the record like any
   other quote, so every pair that uses the instrument has an entry. *)
C17_EmptyHistoryLooksGenuine ==
    /\ \A n \in 1..Len(data) :
          /\ (data[n].status = "error") = replies[n].raised
          /\ EmptyReply(n) =>
                /\ data[n].current_value = 0
                /\ data[n].previous_value = 0
                /\ data[n].change_pct = Fin(0)
                /\ data[n].status = "stable"
                /\ data[n].formatted_value = format_value(0, data[n].unit)
                /\ data[n].formatted_value # NotAvailable
                /\ data[n] = QuoteOf(Keys[n], <<0>>)
    /\ pc = "done" =>
          \A n \in 1..Len(market_data) :
              EmptyReply(n) =>
                  /\ get_item(market_data, Keys[n]) = market_data[n]
                  /\ \A pair \in PairIds :
                        Keys[n] \in PairNeeds(pair) => pair \in DOMAIN signals

\* nothing was returned for Nasdaq and dollar-yen, and both engines used the
\* zeros: the divergence rule fired and two pairs made a call from them
C17_Witness ==
    /\ pc = "done"
    /\ \E n \in 1..Len(replies) : replies[n].key = "ndx" /\ EmptyReply(n)
    /\ \E n \in 1..Len(replies) : replies[n].key = "usdjpy" /\ EmptyReply(n)
    /\ FactorsOf("divergence") # {}
    /\ signals["spx_ndx"].signal = "sell_ndx_buy_spx"
    /\ signals["usd_jpy"].signal = "buy_dollar_sell_yen"

====
